---- MODULE Spec2Model ----
(***************************************************************************)
(* Issue workflow of the civic-issue backend: the IssueController handlers *)
(* (createIssue, getIssueById, assignIssue, updateIssueStatus,             *)
(* voteOnIssue), the chat postMessage handler and the Issue schema.        *)
(*                                                                         *)
(* Every handler that loads a document is split at its awaits: the first   *)
(* step is `await Issue.findById` together with the synchronous in-memory  *)
(* mutation that follows it, the second step is `await issue.save()`,      *)
(* which sends only the paths modified in memory as one atomic update of   *)
(* the stored document.  Requests of different clients interleave between  *)
(* the two steps (Spec); SpecSeq is the same program with every handler    *)
(* run to completion before the next request arrives.  What a single call  *)
(* does is stated over SpecSeq; what holds in every state or of every      *)
(* step, and what is said of overlapping requests, is stated over Spec.    *)
(* Both take a report to be well-formed and the socket server to be        *)
(* attached and working.  SpecIO is SpecSeq with any socket server: absent *)
(* or with an emit that throws.  SpecReport explores createIssue over      *)
(* reports of every form, together with the listing handlers               *)
(* (getAllIssues, getGovernmentOverview, getAllIssuesFull) and the merge   *)
(* of a duplicate into its canonical issue.  SpecChat explores chat posts  *)
(* against issues and their merged duplicates.  SpecPure applies the       *)
(* estimate helper and the parsing of the listing's query string (page,    *)
(* limit, location) to inputs of their own, over listings of up to         *)
(* MaxTotal items.                                                         *)
(***************************************************************************)
EXTENDS Integers, Sequences, FiniteSets, TLC

\* ------------------------------------------------------------------ bounds
MaxIssues == 1
MaxReq == 2
MaxTime == 1
\* clock ticks per hour: the clock of the model counts half hours
TicksPerHour == 2
\* issues stored where reports and listings are explored
MaxReports == 2
\* items matching a paginated read
MaxTotal == 25

\* ------------------------------------------------------------------ inputs
\* users: two citizens and a government official
Users == {"c1", "c2", "g1"}
\* the citizens who report issues, and those who vote
Reporters == {"c1"}
Voters == Users \ {"g1"}
\* the callers of the other operations: the reporter and a government user
Actors == {"c1", "g1"}
NoUser == "none"
Role(u) == IF u = "g1" THEN "government" ELSE "citizen"

Statuses ==
  {"pending", "acknowledged", "assigned", "in-progress", "resolved", "rejected", "closed"}
DefaultStatus == "pending"
\* a status field that is absent from the request body (undefined)
NoStatus == "undefined"
\* the status values a request may carry besides the seven
OtherStatuses == {"bogus", NoStatus}

\* request bodies: "" stands for a field that is absent (or empty, equally falsy)
Comments == {"", "note"}
Departments == {"", "PWD"}
Officials == {NoUser, "g1"}
NoResolutionInput == [description |-> "", images |-> <<>>]
ResolutionInputs == {NoResolutionInput, [description |-> "fixed", images |-> <<"img">>]}

IssueIds == 1..MaxIssues
Times == 0..MaxTime

\* the request bodies explored.  updateIssueStatus: every status without a
\* comment, a comment with one of them, resolution details with `resolved`
\* only (the handler reads them for no other status); a request that is
\* answered before its body is read (403, 404) carries one body.
UpdateBodies(userId, found) ==
  IF Role(userId) # "government" \/ ~found
  THEN {[status |-> "pending", comment |-> "", given |-> NoResolutionInput]}
  ELSE {[status |-> s, comment |-> "", given |-> NoResolutionInput] : s \in Statuses}
       \cup {[status |-> s, comment |-> c, given |-> NoResolutionInput] :
                s \in {"acknowledged"}, c \in Comments \ {""}}
       \cup {[status |-> "resolved", comment |-> "", given |-> g] : g \in ResolutionInputs}
       \cup {[status |-> s, comment |-> "", given |-> NoResolutionInput] : s \in OtherStatuses}
AssignBodies(userId, found) ==
  IF Role(userId) # "government" \/ ~found
  THEN {[department |-> d, officialId |-> NoUser, comment |-> ""] : d \in Departments \ {""}}
  ELSE {[department |-> d, officialId |-> o, comment |-> ""] :
          d \in Departments \ {""}, o \in Officials}
       \cup {[department |-> d, officialId |-> NoUser, comment |-> c] :
                d \in Departments \ {""}, c \in Comments \ {""}}
       \cup {[department |-> "", officialId |-> NoUser, comment |-> ""]}

\* ------------------------------------------------------------------ helpers
Max(a, b) == IF a >= b THEN a ELSE b

\* seeded fault: Math.floor in place of Math.round
RoundDown(n, k) == n \div k

\* Math.ceil(n / k) for n >= 0, k > 0
Ceil(n, k) == (n + k - 1) \div k

\* Math.round(n / k) for n >= 0, k > 0: halves round up
Round(n, k) == (2 * n + k) \div (2 * k)

\* MongooseArray.includes(userId)
Includes(s, x) == \E k \in 1..Len(s) : s[k] = x

\* voters.filter(id => id.toString() !== userId)
RECURSIVE FilterOut(_, _)
FilterOut(s, x) ==
  IF s = <<>> THEN <<>>
  ELSE IF Head(s) = x THEN FilterOut(Tail(s), x)
       ELSE <<Head(s)>> \o FilterOut(Tail(s), x)

\* ------------------------------------------------------------------ schema
Undefined == -1
NoAssignee == [department |-> "", official |-> NoUser]
NoResolution ==
  [resolvedBy |-> NoUser, resolutionDate |-> Undefined,
   resolutionDescription |-> "", resolutionImages |-> <<>>]
DefaultResolutionDescription == "Issue has been resolved"

\* seeded fault: the status history is not seeded
NewIssueNoHistory(u, t) ==
  [reportedBy |-> u,
   status |-> "pending",
   statusHistory |-> <<>>,
   notifications |-> <<[type |-> "status_change", read |-> FALSE]>>,
   votes |-> 0,
   voters |-> <<>>,
   assignedTo |-> NoAssignee,
   actualResolutionTime |-> Undefined,
   resolutionDetails |-> NoResolution,
   createdAt |-> t,
   v |-> 0]

\* the document createIssue builds, with the schema defaults
NewIssue(u, t) ==
  [reportedBy |-> u,
   status |-> "pending",
   statusHistory |->
     <<[status |-> "pending", updatedBy |-> NoUser, comment |-> [kind |-> "reported"]]>>,
   notifications |-> <<[type |-> "status_change", read |-> FALSE]>>,
   votes |-> 0,
   voters |-> <<>>,
   assignedTo |-> NoAssignee,
   actualResolutionTime |-> Undefined,
   resolutionDetails |-> NoResolution,
   createdAt |-> t,
   v |-> 0]

\* ------------------------------------------------------- document.save()
\* The update `issue.save()` sends for a loaded document: one optional $set
\* per scalar path (a sequence of zero or one value), the $push of each
\* array, the positional $set of notifications.k.read, and the use of the
\* version key __v: `where` puts the loaded __v in the query (the save fails
\* with a VersionError when the stored __v differs), `inc` increments it.
\* `invalid`: a modified path fails the validation of the schema, and save()
\* throws a ValidationError before anything is sent.
NoChange ==
  [status |-> <<>>, assignedTo |-> <<>>, pushStatusHistory |-> <<>>,
   pushNotifications |-> <<>>, votes |-> <<>>, pushVoters |-> <<>>,
   setVoters |-> <<>>, resolutionDetails |-> <<>>, actualResolutionTime |-> <<>>,
   read |-> {}, where |-> FALSE, inc |-> FALSE, invalid |-> FALSE]

\* a path assigned in memory is marked modified, and sent, only when the
\* value differs from the loaded one
SetIfModified(old, new) == IF new = old THEN <<>> ELSE <<new>>

\* seeded fault: the pushed entries replace the stored array
PushReplaces(stored, pushed) == pushed

\* $push with $each: the entries are appended to the stored array
PushAll(stored, pushed) == stored \o pushed

\* seeded fault: an update that clears the estimate
ApplyUpdateClearsEstimate(cur, d) == [cur EXCEPT !.estimatedResolutionTime = 0]

\* the stored document after the update `d` is applied to it.  A status that
\* was assigned undefined is unset in the store; every reader then sees the
\* default of the schema, and so does the model.
ApplyUpdate(cur, d) ==
  [cur EXCEPT
     !.status = IF d.status = <<>> THEN @
                ELSE IF d.status[1] = NoStatus THEN DefaultStatus
                ELSE d.status[1],
     !.assignedTo = IF d.assignedTo = <<>> THEN @ ELSE d.assignedTo[1],
     !.statusHistory = PushAll(@, d.pushStatusHistory),
     !.notifications =
        [k \in 1..(Len(@) + Len(d.pushNotifications)) |->
           IF k > Len(@) THEN d.pushNotifications[k - Len(@)]
           ELSE IF k \in d.read THEN [@[k] EXCEPT !.read = TRUE]
           ELSE @[k]],
     !.votes = IF d.votes = <<>> THEN @ ELSE d.votes[1],
     !.voters = IF d.setVoters = <<>> THEN PushAll(@, d.pushVoters) ELSE d.setVoters[1],
     !.resolutionDetails =
        IF d.resolutionDetails = <<>> THEN @ ELSE d.resolutionDetails[1],
     !.actualResolutionTime =
        IF d.actualResolutionTime = <<>> THEN @ ELSE d.actualResolutionTime[1],
     !.v = IF d.inc THEN @ + 1 ELSE @]

\* the query of the update matches the stored document
VersionMatches(cur, d, loadedV) == d.where => cur.v = loadedV

\* the enum validator of `status` and of `statusHistory.status`: undefined
\* passes, any other value must be one of the seven
ValidStatus(status) == status = NoStatus \/ status \in Statuses

\* ------------------------------------------------------------ voteOnIssue
\* seeded fault: withdrawing a vote leaves the count alone
VoteUpdateKeepsCount(doc, userId) ==
  IF Includes(doc.voters, userId)
  THEN [NoChange EXCEPT
          !.setVoters = <<FilterOut(doc.voters, userId)>>,
          !.where = TRUE, !.inc = TRUE]
  ELSE [NoChange EXCEPT
          !.pushVoters = <<userId>>,
          !.votes = SetIfModified(doc.votes, doc.votes + 1),
          !.inc = TRUE]

\* seeded fault: a vote is added whether or not the user has voted
VoteUpdateAlwaysAdds(doc, userId) ==
  [NoChange EXCEPT
     !.pushVoters = <<userId>>,
     !.votes = SetIfModified(doc.votes, doc.votes + 1),
     !.inc = TRUE]

\* seeded fault: the save of a vote writes back the status it loaded
VoteUpdateWritesStatus(doc, userId) ==
  IF Includes(doc.voters, userId)
  THEN [NoChange EXCEPT
          !.setVoters = <<FilterOut(doc.voters, userId)>>,
          !.votes = SetIfModified(doc.votes, Max(0, doc.votes - 1)),
          !.status = <<doc.status>>,
          !.where = TRUE, !.inc = TRUE]
  ELSE [NoChange EXCEPT
          !.pushVoters = <<userId>>,
          !.votes = SetIfModified(doc.votes, doc.votes + 1),
          !.status = <<doc.status>>,
          !.inc = TRUE]

\* the in-memory toggle of lines 652-663, as the update save() will send
VoteUpdate(doc, userId) ==
  IF Includes(doc.voters, userId)
  THEN [NoChange EXCEPT
          !.setVoters = <<FilterOut(doc.voters, userId)>>,
          !.votes = SetIfModified(doc.votes, Max(0, doc.votes - 1)),
          !.where = TRUE, !.inc = TRUE]
  ELSE [NoChange EXCEPT
          !.pushVoters = <<userId>>,
          !.votes = SetIfModified(doc.votes, doc.votes + 1),
          !.inc = TRUE]

\* ------------------------------------------------------------- assignIssue
\* lines 467-486: assignment, status, one history entry, one notification
AssignComment(department, officialId, comment) ==
  IF comment # "" THEN <<comment>>
  ELSE <<"Issue assigned to", department, "department",
         IF officialId # NoUser THEN "and specific official" ELSE "">>

\* seeded fault: the official is not recorded
AssignedToDropsOfficial(old, new) == <<[new EXCEPT !.official = NoUser]>>

\* assigning the nested path marks it modified unless it deep-equals the
\* loaded value; a given official id (a string) never equals the loaded ObjectId
AssignedToUpdate(old, new) ==
  IF new = old /\ new.official = NoUser THEN <<>> ELSE <<new>>

AssignUpdate(doc, userId, department, officialId, comment) ==
  [NoChange EXCEPT
     !.assignedTo =
        AssignedToUpdate(doc.assignedTo, [department |-> department, official |-> officialId]),
     !.status = SetIfModified(doc.status, "assigned"),
     !.pushStatusHistory =
        <<[status |-> "assigned", updatedBy |-> userId,
           comment |-> AssignComment(department, officialId, comment)]>>,
     !.pushNotifications = <<[type |-> "assignment", read |-> FALSE]>>,
     !.inc = TRUE]

\* ------------------------------------------------------- updateIssueStatus
\* seeded fault: the automatic comment names the new status twice
StatusCommentNewOnly(oldStatus, status, comment) ==
  IF comment # "" THEN <<comment>>
  ELSE <<"Status changed from", status, "to", status>>

\* line 544: comment || `Status changed from ${oldStatus} to ${status}`
StatusComment(oldStatus, status, comment) ==
  IF comment # "" THEN <<comment>>
  ELSE <<"Status changed from", oldStatus, "to", status>>

\* seeded fault: the resolution time is not computed
ResolutionTimeUnset(createdAt, resolvedAt) == Undefined

\* lines 550-552: Math.round((resolvedAt - createdAt) / (1000 * 60 * 60))
ResolutionTimeHours(createdAt, resolvedAt) == Round(resolvedAt - createdAt, TicksPerHour)

\* lines 554-559
ResolutionDetails(userId, resolvedAt, given) ==
  [resolvedBy |-> userId,
   resolutionDate |-> resolvedAt,
   resolutionDescription |->
     IF given.description # "" THEN given.description ELSE DefaultResolutionDescription,
   resolutionImages |-> given.images]

\* seeded fault: a resolved issue keeps its status
StatusChangeKeepsResolved(doc, userId, status, comment) ==
  [NoChange EXCEPT
     !.status = IF doc.status = "resolved" THEN <<>> ELSE SetIfModified(doc.status, status),
     !.pushStatusHistory =
        <<[status |-> status, updatedBy |-> userId,
           comment |-> StatusComment(doc.status, status, comment)]>>,
     !.inc = TRUE,
     !.invalid = ~ValidStatus(status)]

\* lines 537-546: the new status and its history entry
StatusChange(doc, userId, status, comment) ==
  [NoChange EXCEPT
     !.status = SetIfModified(doc.status, status),
     !.pushStatusHistory =
        <<[status |-> status, updatedBy |-> userId,
           comment |-> StatusComment(doc.status, status, comment)]>>,
     !.inc = TRUE,
     !.invalid = ~ValidStatus(status)]

\* lines 537-575
StatusUpdate(doc, userId, status, comment, given, t) ==
  IF status = "resolved"
  THEN [StatusChange(doc, userId, status, comment) EXCEPT
          !.resolutionDetails = <<ResolutionDetails(userId, t, given)>>,
          !.actualResolutionTime =
             SetIfModified(doc.actualResolutionTime,
                           ResolutionTimeHours(doc.createdAt, t)),
          !.pushNotifications = <<[type |-> "resolution", read |-> FALSE]>>]
  ELSE [StatusChange(doc, userId, status, comment) EXCEPT
          !.pushNotifications = <<[type |-> "status_change", read |-> FALSE]>>]

\* ------------------------------------------------------------ getIssueById
\* lines 424-428: the reporter's view marks every notification read; only the
\* entries that were unread are modified, each by its position
ReadUpdate(doc) ==
  LET unread == {k \in 1..Len(doc.notifications) : ~doc.notifications[k].read}
  IN [NoChange EXCEPT !.read = unread, !.where = (unread # {})]

\* ------------------------------------------------------------------- state
VARIABLES
  store,   \* the issues collection: store[id] is the stored document
  chats,   \* the chat messages collection, in creation order
  reqs,    \* the requests between their findById and their save
  now,     \* the latest reading of the clock (new Date())
  nOps,    \* requests received so far
  io,      \* the socket server the requests carry as req.io
  last     \* the step just taken: the request, its answer, the store before
           \* it, the event emitted and the issues listed (`out`)

vars == <<store, chats, reqs, now, nOps, io, last>>

Slots == 1..MaxReq

\* req.params, req.user and req.body of a request; `at` is its clock reading
NoBody ==
  [status |-> "", comment |-> "", department |-> "", officialId |-> NoUser,
   given |-> NoResolutionInput, at |-> 0]
Request(op, id, userId, body) == [op |-> op, id |-> id, user |-> userId, body |-> body]
NoRequest == Request("none", 0, NoUser, NoBody)

\* what a handler saw of the document it loaded
NoSeen == [v |-> 0, votes |-> 0, voters |-> <<>>]
Seen(doc) == [v |-> doc.v, votes |-> doc.votes, voters |-> doc.voters]

\* slot r holds the r-th request: between its findById and its save
\* ("loaded"), or answered ("done").  An answered vote stays on record with
\* what it saw and the status code of its answer; of any other answered
\* request only the used slot remains.
Idle == [phase |-> "idle", req |-> NoRequest, update |-> NoChange, seen |-> NoSeen, code |-> 0]
Done(req, seen, code) ==
  IF req.op = "voteOnIssue"
  THEN [phase |-> "done", req |-> req, update |-> NoChange, seen |-> seen, code |-> code]
  ELSE [Idle EXCEPT !.phase = "done"]

Exists(id) == id \in 1..Len(store)
\* the r-th request received takes slot r
NextSlot == {r \in Slots : r = nOps + 1}
\* the clock readings a handler may get: only a resolving update reads it,
\* and the clock has advanced by one tick at most since the last reading
ClockReadings(status) ==
  IF status = "resolved" THEN {t \in Times : t >= now /\ t <= now + 1} ELSE {now}

\* req.io: attached and working, absent (undefined), or with an emit that throws
Sockets == {"attached", "absent", "throws"}

\* the event a handler emits after its store write
EventOf(op) ==
  CASE op = "createIssue" -> "newIssue"
    [] op = "assignIssue" -> "issueAssigned"
    [] op = "updateIssueStatus" -> "issueStatusUpdated"
    [] op = "postMessage" -> "issueChatMessage"
    [] OTHER -> "none"

\* the paging figures of an answer that carries none
NoMeta == [total |-> 0, page |-> 0, limit |-> 0, totalPages |-> 0]

\* a step that wrote nothing.  code 0: the handler is at its save and has not
\* answered yet
Step(r, req, code) ==
  [slot |-> r, req |-> req, code |-> code, pre |-> store, wrote |-> FALSE,
   event |-> "none", out |-> <<>>, meta |-> NoMeta]

\* req.io?.emit(...) inside the try block of the handler, after the store
\* write: an absent socket is skipped, an emit that throws lands in the catch
\* block, which answers 500
Respond(op, success) ==
  IF EventOf(op) # "none" /\ io = "throws" THEN 500 ELSE success

\* the step of a handler whose store write succeeded
Written(r, req, success) ==
  [slot |-> r, req |-> req, code |-> Respond(req.op, success), pre |-> store,
   wrote |-> TRUE, event |-> IF io = "attached" THEN EventOf(req.op) ELSE "none",
   out |-> <<>>, meta |-> NoMeta]

Init ==
  /\ store = <<>>
  /\ chats = <<>>
  /\ reqs = [r \in Slots |-> Idle]
  /\ now = 0
  /\ nOps = 0
  /\ io = "attached"
  /\ last = [slot |-> 0, req |-> NoRequest, code |-> 0, pre |-> <<>>,
             wrote |-> FALSE, event |-> "none", out |-> <<>>, meta |-> NoMeta]

\* a handler answers at once, leaving the store alone
Answer(r, req, code) ==
  /\ reqs' = [reqs EXCEPT ![r] = Done(req, NoSeen, code)]
  /\ last' = Step(r, req, code)
  /\ nOps' = nOps + 1
  /\ UNCHANGED <<store, chats, now, io>>

\* a handler has loaded the document and mutated it in memory
Loaded(r, req, update) ==
  /\ reqs' = [reqs EXCEPT ![r] =
                [phase |-> "loaded", req |-> req, update |-> update,
                 seen |-> Seen(store[req.id]), code |-> 0]]
  /\ last' = Step(r, req, 0)
  /\ nOps' = nOps + 1
  /\ now' = req.body.at
  /\ UNCHANGED <<store, chats, io>>

\* await issue.save(), then the emit and the answer: 200, or 500 from the
\* catch block when the save throws a ValidationError or a VersionError, or
\* when the emit throws
Save(r, op) ==
  LET q == reqs[r]
      cur == store[q.req.id]
      saved == ~q.update.invalid /\ VersionMatches(cur, q.update, q.seen.v)
      step == IF saved THEN Written(r, q.req, 200) ELSE Step(r, q.req, 500)
  IN /\ q.phase = "loaded"
     /\ q.req.op = op
     /\ store' = IF saved
                 THEN [store EXCEPT ![q.req.id] = ApplyUpdate(cur, q.update)]
                 ELSE store
     /\ reqs' = [reqs EXCEPT ![r] = Done(q.req, q.seen, step.code)]
     /\ last' = step
     /\ UNCHANGED <<chats, now, nOps, io>>

\* ----------------------------------------------------------------- reports
\* The values a field of a report may hold: undefined, null, a number n, the
\* number Infinity (JSON.parse reads 1e999 as Infinity), the string of a
\* number n ("1"), a string that is no number ("abc"), the empty string, an
\* array of values.
\* NaN and the CastError of Mongoose are results only.
Val(kind, n, items) == [n |-> n, kind |-> kind, items |-> items]
JsUndefined == Val("undefined", 0, <<>>)
Null == Val("null", 0, <<>>)
Num(n) == Val("number", n, <<>>)
Infinity == Val("Infinity", 0, <<>>)
NumStr(n) == Val("numeric string", n, <<>>)
Text == Val("text", 0, <<>>)
EmptyString == Val("empty string", 0, <<>>)
Arr(items) == Val("array", 0, items)
NaN == Val("NaN", 0, <<>>)
CastError == Val("CastError", 0, <<>>)

\* !!v
Truthy(v) ==
  CASE v.kind \in {"undefined", "null", "NaN", "empty string"} -> FALSE
    [] v.kind = "number" -> v.n # 0
    [] OTHER -> TRUE

\* parseFloat(v)
ParseFloat(v) ==
  CASE v.kind \in {"number", "numeric string"} -> Num(v.n)
    [] v.kind = "Infinity" -> Infinity
    [] OTHER -> NaN

\* parseInt(v)
ParseInt(v) ==
  CASE v.kind \in {"number", "numeric string"} -> Num(v.n)
    [] OTHER -> NaN

IsNaN(v) == v.kind = "NaN"
IsArray(v) == v.kind = "array"

\* the cast of one element of `coordinates: [Number]`: a numeric string
\* becomes its number, null stays null, any other string is a CastError
CastNumber(v) ==
  CASE v.kind \in {"number", "numeric string"} -> Num(v.n)
    [] v.kind = "Infinity" -> Infinity
    [] v.kind \in {"null", "undefined", "empty string"} -> Null
    [] OTHER -> CastError

\* the category enum (two of its members) and a category outside it
Categories == {"Electricity", "Other"}
OtherCategories == {"Potholes"}

\* a location object: its coordinates and its own lat and lng fields
LocationObject(coordinates, lat, lng) == [coordinates |-> coordinates, lat |-> lat, lng |-> lng]
NoFields == LocationObject(JsUndefined, JsUndefined, JsUndefined)

\* req.body.location: absent; a string, which starts with '{' or not
\* (`brace`) and is well-formed JSON for the object `obj` or not (`json`); or
\* an object
NoLocation == [form |-> "undefined", brace |-> FALSE, json |-> FALSE, obj |-> NoFields]
AddressString == [form |-> "string", brace |-> FALSE, json |-> FALSE, obj |-> NoFields]
BrokenJson == [form |-> "string", brace |-> TRUE, json |-> FALSE, obj |-> NoFields]
JsonString(obj) == [form |-> "string", brace |-> TRUE, json |-> TRUE, obj |-> obj]
ObjectLocation(obj) == [form |-> "object", brace |-> FALSE, json |-> FALSE, obj |-> obj]

\* the body of a report: category, location, and the separate latitude and
\* longitude fields; title and description pass their validators
ReportBody(category, location, lat, lng) ==
  [category |-> category, priority |-> "", location |-> location, lat |-> lat,
   lng |-> lng, at |-> 0]

\* the priority enum, and a priority outside it; "" is a priority that is absent
Priorities == {"low", "medium", "high", "urgent"}
OtherPriorities == {"asap"}
\* const { priority = 'low' } = req.body
PriorityOf(body) == IF body.priority = "" THEN "low" ELSE body.priority

\* the parse of the location (locationData): `ok` is FALSE when JSON.parse
\* throws; `data` is empty for null, else holds the object
ParseLocation(location) ==
  CASE location.form = "undefined" -> [ok |-> TRUE, data |-> <<>>]
    [] location.form = "string" /\ location.brace ->
         IF location.json THEN [ok |-> TRUE, data |-> <<location.obj>>]
         ELSE [ok |-> FALSE, data |-> <<>>]
    [] location.form = "string" /\ ~location.brace -> [ok |-> TRUE, data |-> <<NoFields>>]
    [] OTHER -> [ok |-> TRUE, data |-> <<location.obj>>]

\* [lngNum, latNum] when both parse, else the coordinates as they were
FromLatLng(coordinates, lat, lng) ==
  IF ~IsNaN(ParseFloat(lat)) /\ ~IsNaN(ParseFloat(lng))
  THEN Arr(<<ParseFloat(lng), ParseFloat(lat)>>)
  ELSE coordinates

\* coordinates that are falsy or no array are derived from the separate
\* fields of the body when both are truthy, else from lat and lng of the
\* location when both are truthy
Derive(data, rawLat, rawLng) ==
  IF data = <<>> THEN data
  ELSE LET d == data[1]
       IN IF Truthy(d.coordinates) /\ IsArray(d.coordinates) THEN data
          ELSE IF Truthy(rawLat) /\ Truthy(rawLng)
               THEN <<[d EXCEPT !.coordinates = FromLatLng(@, rawLat, rawLng)]>>
          ELSE IF Truthy(d.lat) /\ Truthy(d.lng)
               THEN <<[d EXCEPT !.coordinates = FromLatLng(@, d.lat, d.lng)]>>
          ELSE data

\* seeded fault: the length of the array is not checked
HasAnyArray(data) ==
  data # <<>> /\ IsArray(data[1].coordinates)

\* locationData && Array.isArray(coordinates) && coordinates.length === 2
HasCoordinates(data) ==
  data # <<>> /\ IsArray(data[1].coordinates) /\ Len(data[1].coordinates.items) = 2

\* validationResult(req) of the validateIssue chain
Validated(body) ==
  /\ body.category \in Categories
  /\ body.priority \in Priorities \cup {""}

\* --- calculateEstimatedResolutionTime
\* the keys of baseHours
TableCategories ==
  {"Roads & Infrastructure", "Waste Management", "Electricity", "Water Supply",
   "Sewage & Drainage", "Traffic & Transportation", "Public Safety",
   "Parks & Recreation", "Street Lighting", "Noise Pollution", "Other"}
\* names every object inherits from Object.prototype: a lookup by one of them
\* in baseHours or priorityMultiplier finds the inherited member, which is
\* truthy and no number
InheritedNames == {"constructor", "toString"}
DefaultBaseHours == 48
\* the result NaN of the estimate
NaNHours == -1

\* baseHours[category]
BaseHours(category) ==
  CASE category \in {"Roads & Infrastructure", "Parks & Recreation"} -> 72
    [] category \in {"Waste Management", "Traffic & Transportation", "Street Lighting"} -> 24
    [] category = "Public Safety" -> 12
    [] OTHER -> 48

\* priorityMultiplier[priority] || 1, in quarters
Quarters(priority) ==
  CASE priority = "urgent" -> 1
    [] priority = "high" -> 2
    [] priority = "medium" -> 4
    [] priority = "low" -> 6
    [] OTHER -> 4

\* Math.round(base * multiplier): NaN when either lookup found an inherited
\* member
calculateEstimatedResolutionTime(category, priority) ==
  IF category \in InheritedNames \/ priority \in InheritedNames THEN NaNHours
  ELSE LET base == IF category \in TableCategories THEN BaseHours(category)
                   ELSE DefaultBaseHours
       IN Round(base * Quarters(priority), 4)

\* seeded fault: no geospatial index on the collection
GeoKeysUnchecked(coordinates) == TRUE

\* the 2dsphere indexes: the insert fails unless the coordinates are two
\* numbers within the bounds of longitude and latitude
GeoKeys(coordinates) ==
  Len(coordinates) = 2 /\ \A k \in 1..Len(coordinates) : coordinates[k].kind = "number"

\* seeded fault: no pre-save hook
ReportWithoutHook(u, t, category, priority, coordinates) ==
  NewIssue(u, t) @@
  [category |-> category, priority |-> priority,
   estimatedResolutionTime |-> calculateEstimatedResolutionTime(category, priority),
   coordinates |-> coordinates, mergedInto |-> 0,
   duplicates |-> <<>>, reporters |-> <<>>]

\* the document createIssue stores: the clustering fields of the schema are
\* left to their defaults, the pre-save hook puts the reporter in `reporters`
Report(u, t, category, priority, coordinates) ==
  NewIssue(u, t) @@
  [category |-> category, priority |-> priority,
   estimatedResolutionTime |-> calculateEstimatedResolutionTime(category, priority),
   coordinates |-> coordinates, mergedInto |-> 0,
   duplicates |-> <<>>, reporters |-> <<u>>]

\* the answer of createIssue to a body, and the coordinates it stores
ReportOutcome(body) ==
  LET parsed == ParseLocation(body.location)
      data == Derive(parsed.data, body.lat, body.lng)
      items == data[1].coordinates.items
      cast == [k \in 1..Len(items) |-> CastNumber(items[k])]
      failed(code) == [code |-> code, coordinates |-> <<>>]
  IN IF ~Validated(body) THEN failed(400)
     ELSE IF ~parsed.ok THEN failed(400)
     ELSE IF ~HasCoordinates(data) THEN failed(400)
     ELSE IF \E k \in 1..Len(cast) : cast[k] = CastError THEN failed(400)
     ELSE IF ~GeoKeys(cast) THEN failed(500)
     ELSE [code |-> 201, coordinates |-> cast]

\* createIssue: the report is validated and parsed, the document built at
\* clock reading t and saved, the event emitted.  A report that is refused
\* before its document is built does not read the clock.
ReportIssue(userId, body, t) ==
  LET out == ReportOutcome(body)
      at == IF out.code = 201 THEN t ELSE now
      req == Request("createIssue", Len(store) + 1, userId, [body EXCEPT !.at = at])
  IN /\ IF out.code = 201
        THEN /\ store' = Append(store, Report(userId, t, body.category, PriorityOf(body),
                                              out.coordinates))
             /\ last' = Written(0, req, 201)
        ELSE /\ store' = store
             /\ last' = Step(0, req, out.code)
     /\ now' = at
     /\ UNCHANGED <<chats, reqs, nOps, io>>

\* ----------------------------------------------------------------- actions
\* a report that passes every check of createIssue
WellFormedReport ==
  ReportBody("Other",
             ObjectLocation(LocationObject(Arr(<<Num(0), Num(0)>>), JsUndefined, JsUndefined)),
             JsUndefined, JsUndefined)

CreateIssue(userId) ==
  /\ Len(store) < MaxIssues
  /\ ReportIssue(userId, WellFormedReport, now)


VoteLoad(r, id, userId) ==
  LET req == Request("voteOnIssue", id, userId, [NoBody EXCEPT !.at = now])
  IN IF ~Exists(id) THEN Answer(r, req, 404)
     ELSE Loaded(r, req, VoteUpdate(store[id], userId))

VoteSave(r) == Save(r, "voteOnIssue")

\* seeded fault: the issue is looked up before the role is checked
AssignLoadLooksUpFirst(r, id, userId, department, officialId, comment) ==
  LET req == Request("assignIssue", id, userId,
                     [NoBody EXCEPT !.department = department, !.officialId = officialId,
                                    !.comment = comment, !.at = now])
  IN IF ~Exists(id) THEN Answer(r, req, 404)
     ELSE IF Role(userId) # "government" THEN Answer(r, req, 403)
     ELSE Loaded(r, req, AssignUpdate(store[id], userId, department, officialId, comment))

AssignLoad(r, id, userId, department, officialId, comment) ==
  LET req == Request("assignIssue", id, userId,
                     [NoBody EXCEPT !.department = department, !.officialId = officialId,
                                    !.comment = comment, !.at = now])
  IN IF Role(userId) # "government" THEN Answer(r, req, 403)
     ELSE IF ~Exists(id) THEN Answer(r, req, 404)
     ELSE Loaded(r, req, AssignUpdate(store[id], userId, department, officialId, comment))

AssignSave(r) == Save(r, "assignIssue")

UpdateLoad(r, id, userId, status, comment, given, t) ==
  LET req == Request("updateIssueStatus", id, userId,
                     [NoBody EXCEPT !.status = status, !.comment = comment,
                                    !.given = given, !.at = t])
  IN IF Role(userId) # "government" THEN Answer(r, req, 403)
     ELSE IF ~Exists(id) THEN Answer(r, req, 404)
     ELSE Loaded(r, req, StatusUpdate(store[id], userId, status, comment, given, t))

UpdateSave(r) == Save(r, "updateIssueStatus")

\* the handler is modelled for any req.user, whoever the route lets through
GetLoad(r, id, userId) ==
  LET req == Request("getIssueById", id, userId, [NoBody EXCEPT !.at = now])
  IN IF ~Exists(id) THEN Answer(r, req, 404)
     ELSE IF userId # store[id].reportedBy THEN Answer(r, req, 200)
     ELSE Loaded(r, req, ReadUpdate(store[id]))

GetSave(r) == Save(r, "getIssueById")

\* the message of a chat post: "" is a message that is absent or blank
Messages == {"", "hi"}

\* seeded fault: the message is stored against the issue named in the request
PostMessageNoRedirect(r, id, userId, message) ==
  LET req == Request("postMessage", id, userId, [message |-> message, at |-> now])
  IN IF message = "" THEN Answer(r, req, 400)
     ELSE IF ~Exists(id) THEN Answer(r, req, 404)
     ELSE /\ chats' = Append(chats, [issue |-> id, author |-> userId])
          /\ reqs' = [reqs EXCEPT ![r] = Done(req, NoSeen, 201)]
          /\ last' = Written(r, req, 201)
          /\ nOps' = nOps + 1
          /\ UNCHANGED <<store, now, io>>

\* chat.controller.js postMessage: the message is stored against the issue,
\* or against the issue its mergedInto names
PostMessage(r, id, userId, message) ==
  LET req == Request("postMessage", id, userId, [message |-> message, at |-> now])
      issue == IF store[id].mergedInto # 0 THEN store[id].mergedInto ELSE id
  IN IF message = "" THEN Answer(r, req, 400)
     ELSE IF ~Exists(id) THEN Answer(r, req, 404)
     ELSE /\ chats' = Append(chats, [issue |-> issue, author |-> userId])
          /\ reqs' = [reqs EXCEPT ![r] = Done(req, NoSeen, 201)]
          /\ last' = Written(r, req, 201)
          /\ nOps' = nOps + 1
          /\ UNCHANGED <<store, now, io>>

\* a request arrives: the handler runs to its first answer or to its save.
\* The clock is read by createIssue and by a resolving updateIssueStatus; it
\* never runs backwards.
Arrivals ==
  \/ \E u \in Reporters : CreateIssue(u)
  \/ \E r \in NextSlot, id \in IssueIds, u \in Voters : VoteLoad(r, id, u)
  \/ \E r \in NextSlot, id \in IssueIds, u \in Actors :
        \E b \in AssignBodies(u, Exists(id)) :
        AssignLoad(r, id, u, b.department, b.officialId, b.comment)
  \/ \E r \in NextSlot, id \in IssueIds, u \in Actors :
        \E b \in UpdateBodies(u, Exists(id)) : \E t \in ClockReadings(b.status) :
           UpdateLoad(r, id, u, b.status, b.comment, b.given, t)
  \/ \E r \in NextSlot, id \in IssueIds, u \in Actors : GetLoad(r, id, u)
  \/ \E r \in NextSlot, id \in IssueIds, u \in Reporters : PostMessage(r, id, u, "hi")

\* the save of a request in flight lands
Completions ==
  \/ \E r \in Slots : VoteSave(r)
  \/ \E r \in Slots : AssignSave(r)
  \/ \E r \in Slots : UpdateSave(r)
  \/ \E r \in Slots : GetSave(r)

\* requests of different clients interleave at their awaits
Next == Arrivals \/ Completions
Spec == Init /\ [][Next]_vars

\* every handler runs to completion before the next request arrives
Quiet == \A r \in Slots : reqs[r].phase # "loaded"
NextSeq == (Quiet /\ Arrivals) \/ Completions
SpecSeq == Init /\ [][NextSeq]_vars

\* the same program, one request at a time, with any of the socket servers a
\* request may carry: Spec and SpecSeq take the socket to be attached and
\* working
InitIO ==
  /\ store = <<>>
  /\ chats = <<>>
  /\ reqs = [r \in Slots |-> Idle]
  /\ now = 0
  /\ nOps = 0
  /\ io \in Sockets
  /\ last = [slot |-> 0, req |-> NoRequest, code |-> 0, pre |-> <<>>,
             wrote |-> FALSE, event |-> "none", out |-> <<>>, meta |-> NoMeta]
SpecIO == InitIO /\ [][NextSeq]_vars

\* ------------------------------------------------- reports and listings
\* the elements of a coordinates array explored, and the coordinates: each
\* element beside a zero, in either place
Elements == {Num(0), NumStr(1), Text, Null, Infinity}
LongArray == Arr(<<Num(0), Num(0), Num(0)>>)
CoordinateInputs ==
  {JsUndefined, Text, Arr(<<>>), Arr(<<Num(0)>>), LongArray}
  \cup {Arr(<<a, Num(0)>>) : a \in Elements}
  \cup {Arr(<<Num(0), a>>) : a \in Elements}
\* the separate lat and lng fields explored: both numeric, one of them text,
\* absent or zero
RawFields ==
  {<<NumStr(1), NumStr(1)>>, <<Text, NumStr(1)>>, <<NumStr(1), JsUndefined>>,
   <<Num(0), NumStr(1)>>}

\* the reports explored: every coordinates value in a location object, a
\* second category and a category outside the enum, the other forms of a
\* location, and lat and lng fields, of the location or of the body, beside a
\* location that lacks a two-element array
ReportBodies ==
  {ReportBody("Other", ObjectLocation(LocationObject(k, JsUndefined, JsUndefined)),
              JsUndefined, JsUndefined) : k \in CoordinateInputs}
  \cup {ReportBody(c, WellFormedReport.location, JsUndefined, JsUndefined) :
           c \in Categories \cup OtherCategories}
  \cup {ReportBody("Other", JsonString(LocationObject(k, JsUndefined, JsUndefined)),
                   JsUndefined, JsUndefined) :
           k \in {JsUndefined, Arr(<<NumStr(1), Num(0)>>)}}
  \cup {ReportBody("Other", l, JsUndefined, JsUndefined) :
           l \in {NoLocation, AddressString, BrokenJson}}
  \cup {ReportBody("Other", ObjectLocation(LocationObject(JsUndefined, f[1], f[2])),
                   JsUndefined, JsUndefined) : f \in RawFields}
  \cup {ReportBody("Other", AddressString, f[1], f[2]) : f \in RawFields}
  \cup {ReportBody("Other", ObjectLocation(LocationObject(LongArray, Text, NumStr(1))),
                   JsUndefined, JsUndefined),
        ReportBody("Other", ObjectLocation(LocationObject(LongArray, NumStr(1), NumStr(1))),
                   JsUndefined, JsUndefined),
        ReportBody("Other", NoLocation, NumStr(1), NumStr(1)),
        ReportBody("Other", ObjectLocation(LocationObject(JsUndefined, NumStr(1), NumStr(1))),
                   Text, NumStr(1)),
        ReportBody("Other", ObjectLocation(LocationObject(JsUndefined, NumStr(1), NumStr(1))),
                   NumStr(1), JsUndefined)}

\* POST /api/issues by a citizen: the clock has advanced by one tick at most
SubmitReport(userId, body, t) ==
  /\ Len(store) < MaxReports
  /\ t >= now /\ t <= now + 1
  /\ ReportIssue(userId, body, t)

\* the query parameters of getAllIssues explored: "" is a parameter that is
\* absent; priority, assignedTo, reportedBy, the dates, search and location
\* are absent throughout
StatusFilters == {"", "pending", "resolved"}
CategoryFilters == {"", "Other"}
\* page and limit as the query string carries them: both absent (the first
\* page of ten), and pages of one
Pagings == {<<JsUndefined, JsUndefined>>, <<NumStr(1), NumStr(1)>>, <<NumStr(2), NumStr(1)>>}
SortOrders == {"desc", "asc"}
Query(status, category, page, limit, sortOrder) ==
  [status |-> status, category |-> category, page |-> page, limit |-> limit,
   sortOrder |-> sortOrder, at |-> now]
NoQuery == Query("", "", JsUndefined, JsUndefined, "desc")
\* the queries explored: every paging and sort without a filter, and every
\* filter with the default paging and sort; a request that is answered before
\* its query is read (403) carries one query
Queries(userId) ==
  IF Role(userId) # "government" THEN {NoQuery}
  ELSE {Query("", "", p[1], p[2], o) : p \in Pagings, o \in SortOrders}
       \cup {Query(s, c, JsUndefined, JsUndefined, "desc") :
                s \in StatusFilters, c \in CategoryFilters}

\* the filter object getAllIssues builds
Matches(doc, status, category) ==
  /\ status # "" => doc.status = status
  /\ category # "" => doc.category = category

\* sort({createdAt: ...}): the orders the store may return the issues in,
\* issues created at the same time in either order
Sorted(ids, sortOrder) ==
  {o \in [1..Cardinality(ids) -> ids] :
      /\ \A j, k \in DOMAIN o : j # k => o[j] # o[k]
      /\ \A j, k \in DOMAIN o :
            j < k => IF sortOrder = "desc"
                     THEN store[o[j]].createdAt >= store[o[k]].createdAt
                     ELSE store[o[j]].createdAt <= store[o[k]].createdAt}

\* skip((page - 1) * limit).limit(limit)
Page(order, page, limit) ==
  LET skip == (page - 1) * limit
      left == Max(0, Len(order) - skip)
  IN [k \in 1..(IF left < limit THEN left ELSE limit) |-> order[skip + k]]

\* const { page = 1, limit = 10 } = req.query: the default stands in for a
\* parameter that is absent, and for no other
DefaultTo(v, d) == IF v.kind = "undefined" THEN Num(d) ELSE v
DefaultPage == 1
DefaultLimit == 10

\* the page count Issue.paginate reports for a limit > 0:
\* Math.ceil(count / limit) || 1
PaginatePages(total, limit) == Max(1, Ceil(total, limit))

\* Issue.paginate(filter, {page, limit}) over the matching issues in sort
\* order, page and limit being the results of parseInt.  A limit that is no
\* number above 0 becomes 0 and fetches no document; a page below 1 becomes 1;
\* a page that is NaN gives a NaN skip, which the store either refuses (the
\* handler then answers 500) or takes for none.  The result is the set of
\* answers the call may give.
Paginate(order, page, limit) ==
  LET lim == IF limit.kind = "number" /\ limit.n > 0 THEN limit.n ELSE 0
      pg == IF page.kind = "number" /\ page.n < 1 THEN Num(1) ELSE page
      pages == IF lim > 0 THEN Num(PaginatePages(Len(order), lim)) ELSE Null
      meta == [total |-> Len(order), page |-> pg, limit |-> lim, totalPages |-> pages]
  IN IF lim = 0 THEN {[code |-> 200, docs |-> <<>>, meta |-> meta]}
     ELSE IF IsNaN(pg)
          THEN {[code |-> 500, docs |-> <<>>, meta |-> NoMeta],
                [code |-> 200, docs |-> Page(order, 1, lim), meta |-> meta]}
          ELSE {[code |-> 200, docs |-> Page(order, pg.n, lim), meta |-> meta]}

\* a listing answers with the ids in `out` and leaves the store alone
Listed(req, out) ==
  /\ last' = [Step(0, req, 200) EXCEPT !.out = out]
  /\ UNCHANGED <<store, chats, reqs, now, nOps, io>>

\* the answer of a paginated listing: its documents and its paging figures
ListedPage(req, answer) ==
  /\ last' = [Step(0, req, answer.code) EXCEPT !.out = answer.docs, !.meta = answer.meta]
  /\ UNCHANGED <<store, chats, reqs, now, nOps, io>>

Forbidden(req) ==
  /\ last' = Step(0, req, 403)
  /\ UNCHANGED <<store, chats, reqs, now, nOps, io>>

\* getAllIssues: Issue.paginate(filter, {page, limit, sort})
GetAllIssues(userId, status, category, page, limit, sortOrder) ==
  LET req == Request("getAllIssues", 0, userId, Query(status, category, page, limit, sortOrder))
      found == {i \in 1..Len(store) : Matches(store[i], status, category)}
  IN IF Role(userId) # "government" THEN Forbidden(req)
     ELSE \E order \in Sorted(found, sortOrder) :
            \E answer \in Paginate(order, ParseInt(DefaultTo(page, DefaultPage)),
                                    ParseInt(DefaultTo(limit, DefaultLimit))) :
               ListedPage(req, answer)

\* getGovernmentOverview: the ten latest issues (the counts by status of the
\* answer are not kept)
GetGovernmentOverview(userId) ==
  LET req == Request("getGovernmentOverview", 0, userId, NoQuery)
  IN IF Role(userId) # "government" THEN Forbidden(req)
     ELSE \E order \in Sorted(1..Len(store), "desc") : Listed(req, Page(order, 1, 10))

\* getAllIssuesFull: every issue, latest first
GetAllIssuesFull(userId) ==
  LET req == Request("getAllIssuesFull", 0, userId, NoQuery)
  IN IF Role(userId) # "government" THEN Forbidden(req)
     ELSE \E order \in Sorted(1..Len(store), "desc") : Listed(req, order)

\* open: not in one of the closing statuses
OpenCanonical(doc) ==
  doc.mergedInto = 0 /\ doc.status \notin {"resolved", "rejected", "closed"}

\* The merge of the clustering engine (a report that matches): the report of
\* `userId`, of the category and at the coordinates of the open canonical
\* issue `canon`, is stored as a duplicate of it, a record whose mergedInto
\* is `canon`; `canon` gains the duplicate and, if it is a new one, its
\* reporter.  Votes are left alone.
Merge(userId, canon, t) ==
  LET dup == Len(store) + 1
      draft == Report(userId, t, store[canon].category, "low", store[canon].coordinates)
  IN /\ Len(store) < MaxReports
     /\ Exists(canon)
     /\ OpenCanonical(store[canon])
     /\ t >= now /\ t <= now + 1
     /\ store' = Append([store EXCEPT
                           ![canon].duplicates = Append(@, dup),
                           ![canon].reporters =
                              IF Includes(@, userId) THEN @ ELSE Append(@, userId)],
                        [draft EXCEPT !.mergedInto = canon])
     /\ last' = [Step(0, Request("merge", dup, userId, NoQuery), 200) EXCEPT !.wrote = TRUE]
     /\ now' = t
     /\ UNCHANGED <<chats, reqs, nOps, io>>

NextReport ==
  \/ \E u \in Reporters, b \in ReportBodies, t \in Times : SubmitReport(u, b, t)
  \/ \E u \in Actors : \E q \in Queries(u) :
        GetAllIssues(u, q.status, q.category, q.page, q.limit, q.sortOrder)
  \/ \E u \in Actors : GetGovernmentOverview(u)
  \/ \E u \in Actors : GetAllIssuesFull(u)
  \/ \E u \in Reporters, canon \in 1..MaxReports, t \in Times : Merge(u, canon, t)

SpecReport == Init /\ [][NextReport]_vars

\* --------------------------------------------------------- merges and chat
\* reports, by the reporter; merged reports, by any citizen; chat posts
\* against every issue, by the reporter and by a government user
ReportIds == 1..MaxReports
NextChat ==
  \/ \E u \in Reporters : CreateIssue(u)
  \/ \E u \in Voters, canon \in ReportIds, t \in Times : Merge(u, canon, t)
  \/ \E r \in NextSlot, id \in ReportIds, u \in Actors, m \in Messages :
        PostMessage(r, id, u, m)

SpecChat == Init /\ [][NextChat]_vars

\* ------------------------------------------------ helpers and query parsing
\* The helper of the estimate and the parsing of the query string, applied to
\* inputs of their own: the store stays empty and `last` records the input
\* (req.body) and the result (out, meta).
Totals == 0..MaxTotal
TotalOrder(total) == [k \in 1..total |-> k]

\* calculateEstimatedResolutionTime(category, priority): every category of the
\* table, a name the table lacks, names every object inherits; every
\* priority, an absent one (""), a name the table lacks, inherited names
Estimate(category, priority) ==
  /\ last' = [Step(0, Request("calculateEstimatedResolutionTime", 0, NoUser,
                               [category |-> category, priority |-> priority, at |-> 0]), 0)
                EXCEPT !.out = <<calculateEstimatedResolutionTime(category, priority)>>]
  /\ UNCHANGED <<store, chats, reqs, now, nOps, io>>

\* page and limit as a query string carries them: absent, the string of a
\* number, a string that is no number
PageInputs == {JsUndefined, NumStr(1), NumStr(2), NumStr(3), NumStr(4), Text}
LimitInputs == {JsUndefined, NumStr(1), NumStr(10), Text}
PagingInput(total, page, limit) == [total |-> total, page |-> page, limit |-> limit, at |-> 0]

\* the paging of getAllIssues by a government user over `total` matching
\* issues: parseInt of the two parameters, then Issue.paginate; an exception
\* of the store lands in the catch block (500)
ListPage(total, page, limit) ==
  \E answer \in Paginate(TotalOrder(total), ParseInt(DefaultTo(page, DefaultPage)),
                          ParseInt(DefaultTo(limit, DefaultLimit))) :
     /\ last' = [Step(0, Request("getAllIssues", 0, "g1", PagingInput(total, page, limit)),
                      answer.code)
                   EXCEPT !.out = answer.docs, !.meta = answer.meta]
     /\ UNCHANGED <<store, chats, reqs, now, nOps, io>>

\* messages.reverse()
Reverse(s) == [k \in 1..Len(s) |-> s[Len(s) + 1 - k]]

DefaultChatLimit == 20

\* Math.ceil(total / parseInt(limit))
MessagePages(total, limit) == Ceil(total, limit)

\* the paging of getMessages over an issue with `total` messages, latest
\* first, for a page and a limit that parse to numbers of 1 and above:
\* find().sort().skip((page - 1) * limit).limit(limit), countDocuments,
\* Math.ceil(total / limit)
MessagePage(total, page, limit) ==
  LET p == ParseInt(DefaultTo(page, DefaultPage))
      l == ParseInt(DefaultTo(limit, DefaultChatLimit))
  IN /\ ~IsNaN(p) /\ p.n >= 1
     /\ ~IsNaN(l) /\ l.n >= 1
     /\ last' = [Step(0, Request("getMessages", 0, NoUser, PagingInput(total, page, limit)), 200)
                   EXCEPT !.out = Reverse(Page(TotalOrder(total), p.n, l.n)),
                          !.meta = [total |-> total, page |-> p, limit |-> l.n,
                                    totalPages |-> Num(MessagePages(total, l.n))]]
     /\ UNCHANGED <<store, chats, reqs, now, nOps, io>>

\* the parts of location.split(','): absent (the string has fewer parts),
\* empty, the string of a number, a string that is no number
Parts == {JsUndefined, EmptyString, NumStr(0), NumStr(1), Text}
DefaultMaxDistance == 5000
NoDistance == -1

\* $maxDistance: parseInt(radius) || 5000
MaxDistance(radius) ==
  IF Truthy(ParseInt(radius)) THEN ParseInt(radius).n ELSE DefaultMaxDistance

\* the location filter of getAllIssues for 'lng,lat,radius': the distance of
\* the $near clause, NoDistance when no clause is built (if (lng && lat))
Proximity(lng, lat, radius) ==
  /\ last' = [Step(0, Request("getAllIssues", 0, "g1",
                               [lng |-> lng, lat |-> lat, radius |-> radius, at |-> 0]), 0)
                EXCEPT !.out = <<IF Truthy(lng) /\ Truthy(lat) THEN MaxDistance(radius)
                                 ELSE NoDistance>>]
  /\ UNCHANGED <<store, chats, reqs, now, nOps, io>>

NextPure ==
  \/ \E c \in TableCategories \cup OtherCategories \cup InheritedNames,
        p \in Priorities \cup {""} \cup OtherPriorities \cup InheritedNames : Estimate(c, p)
  \/ \E total \in Totals, page \in PageInputs, limit \in LimitInputs :
        ListPage(total, page, limit)
  \/ \E total \in Totals, page \in PageInputs, limit \in LimitInputs :
        MessagePage(total, page, limit)
  \/ \E lng \in Parts, lat \in Parts, radius \in Parts : Proximity(lng, lat, radius)

SpecPure == Init /\ [][NextPure]_vars

\* -------------------------------------------------------------- properties
\* the step just taken was the successful save of operation `op` on issue i
Succeeded(op, i) == last.req.op = op /\ last.req.id = i /\ last.code = 200
\* the step just taken was a successful status transition of issue i
Transitioned(i) == Succeeded("assignIssue", i) \/ Succeeded("updateIssueStatus", i)
\* slot r holds an answered vote of userId on issue i, which it found
VoteDone(r, i, userId) ==
  /\ reqs[r].phase = "done"
  /\ reqs[r].code # 404
  /\ reqs[r].req.op = "voteOnIssue"
  /\ reqs[r].req.id = i
  /\ reqs[r].req.user = userId
Range(s) == {s[k] : k \in 1..Len(s)}
IsPrefix(s, t) == Len(s) <= Len(t) /\ SubSeq(t, 1, Len(s)) = s
Occurrences(s, x) == Cardinality({k \in 1..Len(s) : s[k] = x})

\* C1: after any sequence of voteOnIssue calls, each run to completion, the
\* votes of every issue equal the number of its voters and are not negative.
VotesCountVoters ==
  \A i \in DOMAIN store :
     /\ store[i].votes = Len(store[i].voters)
     /\ store[i].votes = Cardinality(Range(store[i].voters))
     /\ store[i].votes >= 0

\* C1 happens: a vote has been withdrawn after it was given
VoteWithdrawn ==
  \E i \in DOMAIN last.pre :
     /\ Succeeded("voteOnIssue", i)
     /\ last.pre[i].votes = 1
     /\ store[i].votes = 0

\* C2: when the votes of two different users on one issue interleave, both
\* reading the issue before either saves, then once both are answered both
\* users are among the voters and votes equals the number of voters.
InterleavedVotesBothCount ==
  \A r1, r2 \in Slots : \A i \in DOMAIN store : \A u1, u2 \in Voters :
     (/\ r1 # r2 /\ u1 # u2
      /\ VoteDone(r1, i, u1) /\ VoteDone(r2, i, u2)
      /\ last.slot = r2
      /\ reqs[r1].seen = reqs[r2].seen
      /\ ~Includes(reqs[r1].seen.voters, u1)
      /\ ~Includes(reqs[r1].seen.voters, u2))
     => /\ Includes(store[i].voters, u1)
        /\ Includes(store[i].voters, u2)
        /\ store[i].votes = Len(store[i].voters)

\* C3: when one user submits the same vote twice at once, both requests
\* reading the issue before either saves, the user is among the voters at
\* most once and adds at most one to votes.
DoubleSubmissionCountsOnce ==
  \A r1, r2 \in Slots : \A i \in DOMAIN store : \A u \in Voters :
     (/\ r1 # r2
      /\ VoteDone(r1, i, u) /\ VoteDone(r2, i, u)
      /\ last.slot = r2
      /\ reqs[r1].seen = reqs[r2].seen)
     => /\ Occurrences(store[i].voters, u) <= 1
        /\ store[i].votes <= reqs[r1].seen.votes + 1

HistoryEndsAtStatus ==
  \A i \in DOMAIN store :
     /\ Len(store[i].statusHistory) >= 1
     /\ store[i].statusHistory[Len(store[i].statusHistory)].status = store[i].status

\* C6: the status history is append-only: every step keeps the earlier
\* history as a prefix; a successful assignIssue or updateIssueStatus extends
\* it by exactly one entry, and every other step (vote, get, chat) leaves it
\* unchanged.
HistoryAppendOnly ==
  \A i \in DOMAIN last.pre :
     /\ IsPrefix(last.pre[i].statusHistory, store[i].statusHistory)
     /\ Len(store[i].statusHistory) =
          Len(last.pre[i].statusHistory) + (IF Transitioned(i) THEN 1 ELSE 0)

\* C6 happens: a transition has extended a history of two entries
HistoryExtended ==
  \E i \in DOMAIN last.pre :
     /\ Transitioned(i)
     /\ Len(last.pre[i].statusHistory) >= 2
     /\ Len(store[i].statusHistory) = 3

\* C7: each successful status transition appends exactly one notification;
\* the history entry of an updateIssueStatus without a comment names the
\* old status and the new one.
TransitionNotifies ==
  \A i \in DOMAIN last.pre :
     Transitioned(i) =>
        /\ Len(store[i].notifications) = Len(last.pre[i].notifications) + 1
        /\ (last.req.op = "updateIssueStatus" /\ last.req.body.comment = "") =>
              LET c == store[i].statusHistory[Len(store[i].statusHistory)].comment
              IN /\ Len(c) = 4
                 /\ c[2] = last.pre[i].status
                 /\ c[4] = last.req.body.status

\* C7 happens: a resolved issue was set to in-progress without a comment
ReopenedWithoutComment ==
  \E i \in DOMAIN last.pre :
     /\ Succeeded("updateIssueStatus", i)
     /\ last.req.body.comment = ""
     /\ last.pre[i].status = "resolved"
     /\ store[i].status = "in-progress"

\* C8: actualResolutionTime is set exactly when some entry of the status
\* history is `resolved`.
ResolutionTimeIffResolved ==
  \A i \in DOMAIN store :
     (store[i].actualResolutionTime # Undefined)
        <=> (\E k \in 1..Len(store[i].statusHistory) :
                store[i].statusHistory[k].status = "resolved")

\* C8 happens: an issue that was resolved has moved on and keeps its time
ResolvedEarlier ==
  \E i \in DOMAIN store :
     /\ store[i].status # "resolved"
     /\ store[i].actualResolutionTime # Undefined
     /\ \E k \in 1..Len(store[i].statusHistory) :
           store[i].statusHistory[k].status = "resolved"

\* C9: a successful updateIssueStatus to `resolved` sets actualResolutionTime
\* to the hours between creation and resolution, rounded to the nearest
\* integer (halves up) and not negative, records the caller as resolvedBy,
\* and without supplied details the description "Issue has been resolved"
\* and no images.
ResolveRecordsDetails ==
  \A i \in DOMAIN last.pre :
     (Succeeded("updateIssueStatus", i) /\ last.req.body.status = "resolved") =>
        LET hours == store[i].actualResolutionTime
            ticks == last.req.body.at - store[i].createdAt
            details == store[i].resolutionDetails
        IN /\ hours \in Nat
           /\ 2 * TicksPerHour * hours - TicksPerHour <= 2 * ticks
           /\ 2 * ticks < 2 * TicksPerHour * hours + TicksPerHour
           /\ details.resolvedBy = last.req.user
           /\ last.req.body.given = NoResolutionInput =>
                 /\ details.resolutionDescription = "Issue has been resolved"
                 /\ details.resolutionImages = <<>>

\* C9 happens: an issue was resolved half an hour or more after its creation,
\* without details
ResolvedLater ==
  \E i \in DOMAIN last.pre :
     /\ Succeeded("updateIssueStatus", i)
     /\ last.req.body.status = "resolved"
     /\ last.req.body.given = NoResolutionInput
     /\ last.req.body.at > store[i].createdAt

\* C10: updateIssueStatus by a government user on an existing issue with any
\* of the seven statuses succeeds and makes it the current status, whatever
\* the status was.
AnyStatusFromAny ==
  \A i \in DOMAIN last.pre :
     (/\ last.req.op = "updateIssueStatus"
      /\ last.req.id = i
      /\ Role(last.req.user) = "government"
      /\ last.req.body.status \in Statuses
      /\ last.code # 0)
     => /\ last.code = 200
        /\ store[i].status = last.req.body.status

\* C10 happens: a resolved issue was set back to pending
ResolvedSetBackToPending ==
  \E i \in DOMAIN last.pre :
     /\ Succeeded("updateIssueStatus", i)
     /\ Role(last.req.user) = "government"
     /\ last.pre[i].status = "resolved"
     /\ store[i].status = "pending"

\* C11 as claimed: once the status of an issue is resolved, no later step
\* changes it.
ResolvedIsTerminal ==
  \A i \in DOMAIN last.pre :
     last.pre[i].status = "resolved" => store[i].status = "resolved"

\* C11 amended: the status of a resolved issue is changed by no step other
\* than a successful updateIssueStatus or assignIssue; voteOnIssue,
\* getIssueById and postMessage leave it resolved.
ResolvedLeftOnlyByTransition ==
  \A i \in DOMAIN last.pre :
     (last.pre[i].status = "resolved" /\ store[i].status # "resolved")
        => Transitioned(i)

\* C11 happens: a vote was saved on a resolved issue
ResolvedIssueVoted ==
  \E i \in DOMAIN last.pre :
     /\ Succeeded("voteOnIssue", i)
     /\ last.pre[i].status = "resolved"
     /\ store[i].status = "resolved"
     /\ store[i].votes # last.pre[i].votes

\* C12: assignIssue by a government user on an existing issue succeeds, makes
\* the status assigned whatever it was, and stores the given department and
\* the given official, or none when no official is given.
AssignSetsAssigned ==
  \A i \in DOMAIN last.pre :
     (/\ last.req.op = "assignIssue"
      /\ last.req.id = i
      /\ Role(last.req.user) = "government"
      /\ last.code # 0)
     => /\ last.code = 200
        /\ store[i].status = "assigned"
        /\ store[i].assignedTo =
              [department |-> last.req.body.department,
               official |-> last.req.body.officialId]

\* C12 happens: a resolved issue was assigned to an official
ResolvedIssueAssigned ==
  \E i \in DOMAIN last.pre :
     /\ Succeeded("assignIssue", i)
     /\ last.pre[i].status = "resolved"
     /\ last.req.body.officialId # NoUser
     /\ store[i].assignedTo.official = last.req.body.officialId

\* C13 as claimed: an updateIssueStatus whose status is none of the seven is
\* rejected and leaves the stored issue as it was, so the status of every
\* issue and of every history entry is one of the seven.
InvalidStatusRejected ==
  /\ \A i \in DOMAIN last.pre :
        (/\ last.req.op = "updateIssueStatus"
         /\ last.req.id = i
         /\ last.req.body.status \notin Statuses
         /\ last.code # 0)
        => /\ last.code # 200
           /\ store[i] = last.pre[i]
  /\ \A i \in DOMAIN store :
        /\ store[i].status \in Statuses
        /\ \A k \in 1..Len(store[i].statusHistory) :
              store[i].statusHistory[k].status \in Statuses

\* C14 as claimed: an assignIssue without a department is rejected and leaves
\* status, assignedTo, statusHistory and notifications as they were.
EmptyDepartmentRejected ==
  \A i \in DOMAIN last.pre :
     (/\ last.req.op = "assignIssue"
      /\ last.req.id = i
      /\ last.req.body.department = ""
      /\ last.code # 0)
     => /\ last.code # 200
        /\ store[i].status = last.pre[i].status
        /\ store[i].assignedTo = last.pre[i].assignedTo
        /\ store[i].statusHistory = last.pre[i].statusHistory
        /\ store[i].notifications = last.pre[i].notifications

\* C17: assignIssue and updateIssueStatus called by a user who is not a
\* government user answer 403 before the issue is looked up, for an unknown
\* issue too, write nothing to the store and emit no event.
PermissionBeforeLookup ==
  (/\ last.req.op \in {"assignIssue", "updateIssueStatus"}
   /\ Role(last.req.user) # "government")
  => /\ last.code = 403
     /\ store = last.pre
     /\ ~last.wrote
     /\ last.event = "none"
     /\ \A r \in Slots : reqs[r].phase # "loaded" \/ Role(reqs[r].req.user) = "government"
                           \/ reqs[r].req.op \notin {"assignIssue", "updateIssueStatus"}

\* C17 happens: a citizen was refused on an issue that does not exist
DeniedOnUnknownIssue ==
  /\ last.req.op \in {"assignIssue", "updateIssueStatus"}
  /\ Role(last.req.user) # "government"
  /\ last.code = 403
  /\ last.req.id \notin DOMAIN store

\* C18: an emit that fails never fails the mutation: whether the socket is
\* attached, absent or throwing, an operation whose store write succeeded
\* answers with its success code (200, or 201 for a creation).
EmitNeverFailsMutation ==
  last.wrote => last.code \in {200, 201}

\* lat and lng fields that parse to numbers
Derivable(lat, lng) == ~IsNaN(ParseFloat(lat)) /\ ~IsNaN(ParseFloat(lng))

\* the location of the report is absent or unparseable, or its coordinates
\* are no two-element array and no pair of lat and lng fields, of the body or
\* of the location, parses to numbers
MalformedLocation(body) ==
  LET l == body.location
  IN \/ l.form = "undefined"
     \/ l.form = "string" /\ l.brace /\ ~l.json
     \/ /\ ~(IsArray(l.obj.coordinates) /\ Len(l.obj.coordinates.items) = 2)
        /\ ~Derivable(body.lat, body.lng)
        /\ ~Derivable(l.obj.lat, l.obj.lng)

\* C15: createIssue with a location that is absent or unparseable, or whose
\* coordinates are missing or no two-element array and cannot be derived
\* from lat and lng fields, answers 400, stores nothing and emits no
\* newIssue event.
MalformedLocationRejected ==
  (last.req.op = "createIssue" /\ MalformedLocation(last.req.body)) =>
     /\ last.code = 400
     /\ store = last.pre
     /\ ~last.wrote
     /\ last.event # "newIssue"

\* C15 witness: with an issue in the store, a report whose coordinates are a
\* three-element array and whose lat and lng fields are text was answered 400.
LongArrayRejected ==
  /\ Len(store) = 1
  /\ last.req.op = "createIssue"
  /\ last.req.body.location.obj.coordinates = LongArray
  /\ last.req.body.location.obj.lat = Text
  /\ last.req.body.location.obj.lng = NumStr(1)
  /\ last.code = 400

\* C16: in every state the coordinates of every stored issue are an array of
\* exactly two finite numbers.
CoordinatesTwoNumbers ==
  \A i \in 1..Len(store) :
     /\ Len(store[i].coordinates) = 2
     /\ \A k \in 1..2 : store[i].coordinates[k].kind = "number"

\* C16 witness: a report that gave its longitude as the string of a number
\* was stored with the number, and a second report was refused for a null
\* coordinate.
NumericStringStored ==
  /\ Len(store) = 1
  /\ store[1].coordinates = <<Num(1), Num(0)>>
  /\ last.req.op = "createIssue"
  /\ last.req.body.location.obj.coordinates = Arr(<<Null, Num(0)>>)
  /\ last.code = 500

\* C19: when a report has the category and the coordinates of an issue that
\* is still an open canonical issue, it resolves to that issue: no second
\* canonical issue (mergedInto unset) is created for it.
SameSpotResolvesToFirst ==
  \A i \in 1..Len(last.pre) :
     (/\ last.req.op = "createIssue"
      /\ last.code = 201
      /\ OpenCanonical(last.pre[i])
      /\ last.pre[i].category = last.req.body.category
      /\ last.pre[i].coordinates = ReportOutcome(last.req.body).coordinates)
     => \A j \in (Len(last.pre) + 1)..Len(store) : store[j].mergedInto # 0

\* C20: an issue whose mergedInto is set appears in no listing, whatever the
\* filter, the page and the sort: every issue a listing returns is canonical.
ListingsOmitDuplicates ==
  \A k \in 1..Len(last.out) : store[last.out[k]].mergedInto = 0

\* C21: in every state the reporters of every stored issue contain its
\* reportedBy and contain no user more than once.
ReportersHoldReporter ==
  \A i \in 1..Len(store) :
     /\ Includes(store[i].reporters, store[i].reportedBy)
     /\ \A j, k \in 1..Len(store[i].reporters) :
           j # k => store[i].reporters[j] # store[i].reporters[k]

\* C21 witness: the reporter of an issue reported the same problem again,
\* the second report was merged into the first, and the reporters of the
\* first issue still hold the reporter once.
ReporterMergedAgain ==
  /\ Len(store) = 2
  /\ store[2].mergedInto = 1
  /\ store[2].reportedBy = store[1].reportedBy
  /\ store[1].duplicates = <<2>>
  /\ store[1].reporters = <<store[1].reportedBy>>

\* C22: right after a successful createIssue the new issue is pending, with
\* one history entry (pending), one notification, no votes and no voters,
\* its reporter as its only reporter, no duplicates, mergedInto unset and
\* actualResolutionTime unset.
FreshIssueSeeded ==
  (last.req.op = "createIssue" /\ last.code = 201) =>
     /\ last.req.id = Len(store)
     /\ LET issue == store[last.req.id]
        IN /\ issue.status = "pending"
           /\ Len(issue.statusHistory) = 1
           /\ issue.statusHistory[1].status = "pending"
           /\ Len(issue.notifications) = 1
           /\ issue.votes = 0
           /\ issue.voters = <<>>
           /\ issue.reportedBy = last.req.user
           /\ issue.reporters = <<issue.reportedBy>>
           /\ issue.duplicates = <<>>
           /\ issue.mergedInto = 0
           /\ issue.actualResolutionTime = Undefined

\* C22 witness: a second issue was created, from a report whose coordinates
\* were derived from its lat and lng fields.
SecondIssueCreated ==
  /\ Len(store) = 2
  /\ last.req.op = "createIssue"
  /\ last.req.id = 2
  /\ last.code = 201
  /\ last.req.body.location = AddressString
  /\ last.req.body.lat = NumStr(1)

ClaimedBase(c) == IF c \in TableCategories THEN BaseHours(c) ELSE 48
ClaimedQuarters(p) == IF p \in Priorities THEN Quarters(p) ELSE 4
PagedRead ==
  /\ last.req.op \in {"getAllIssues", "getMessages"}
  /\ "total" \in DOMAIN last.req.body
  /\ last.req.body.page.kind \in {"undefined", "numeric string"}
  /\ last.req.body.limit.kind \in {"undefined", "numeric string"}
RequestedPage == IF last.req.body.page.kind = "undefined" THEN 1 ELSE last.req.body.page.n
RequestedLimit ==
  IF last.req.body.limit.kind # "undefined" THEN last.req.body.limit.n
  ELSE IF last.req.op = "getMessages" THEN 20 ELSE 10
\* ceil(T / L): the least m with m * L >= T
ClaimedPages(T, L) == CHOOSE m \in 0..T : m * L >= T /\ \A j \in 0..(m - 1) : j * L < T
ClaimedItems(T, L, p) ==
  LET left == IF T - (p - 1) * L > 0 THEN T - (p - 1) * L ELSE 0
  IN IF L < left THEN L ELSE left
PagesAreCeiling ==
  (PagedRead /\ RequestedLimit >= 1 /\ RequestedPage >= 1)
     => /\ last.code = 200
        /\ last.meta.totalPages = Num(ClaimedPages(last.req.body.total, RequestedLimit))
        /\ Len(last.out) = ClaimedItems(last.req.body.total, RequestedLimit, RequestedPage)

\* C26: in the issue listing a page or limit that is no number is replaced by
\* its default (page 1, limit 10), and the listing succeeds with those values.
ClaimedPage(v) == IF v.kind = "numeric string" THEN v.n ELSE 1
ClaimedLimit(v) == IF v.kind = "numeric string" THEN v.n ELSE 10
MalformedPagingDefaults ==
  (/\ last.req.op = "getAllIssues"
   /\ "total" \in DOMAIN last.req.body
   /\ Text \in {last.req.body.page, last.req.body.limit})
     => /\ last.code = 200
        /\ last.meta.page = Num(ClaimedPage(last.req.body.page))
        /\ last.meta.limit = ClaimedLimit(last.req.body.limit)
        /\ Len(last.out) = ClaimedItems(last.req.body.total, ClaimedLimit(last.req.body.limit),
                                       ClaimedPage(last.req.body.page))

\* C27: for a proximity filter 'lng,lat,radius' the maximum distance is the
\* supplied radius whenever it is numeric, 0 included, and 5000 exactly when
\* the radius is omitted or non-numeric.
RadiusIsSupplied ==
  (/\ "radius" \in DOMAIN last.req.body
   /\ last.req.body.lng.kind \in {"numeric string", "text"}
   /\ last.req.body.lat.kind \in {"numeric string", "text"})
     => last.out = <<IF last.req.body.radius.kind = "numeric string"
                     THEN last.req.body.radius.n ELSE 5000>>

\* C28: actualResolutionTime and resolutionDetails are set once on reaching
\* resolved: a successful updateIssueStatus to resolved on an issue that is
\* already resolved leaves both unchanged.
ResolutionSetOnce ==
  \A i \in DOMAIN last.pre :
     (/\ Succeeded("updateIssueStatus", i)
      /\ last.req.body.status = "resolved"
      /\ last.pre[i].status = "resolved")
        => /\ store[i].actualResolutionTime = last.pre[i].actualResolutionTime
           /\ store[i].resolutionDetails = last.pre[i].resolutionDetails

\* C29: estimatedResolutionTime is computed once, at creation, as
\* calculateEstimatedResolutionTime(category, priority): every stored issue
\* holds that value, and no step (a vote, an assignment, a status update, a
\* read by id among them) changes estimatedResolutionTime, priority, category
\* or reportedBy of an issue that existed before it.
EstimateFixedAtCreation ==
  \A i \in DOMAIN store :
     /\ store[i].estimatedResolutionTime
           = calculateEstimatedResolutionTime(store[i].category, store[i].priority)
     /\ i \in DOMAIN last.pre =>
           /\ store[i].estimatedResolutionTime = last.pre[i].estimatedResolutionTime
           /\ store[i].priority = last.pre[i].priority
           /\ store[i].category = last.pre[i].category
           /\ store[i].reportedBy = last.pre[i].reportedBy

\* C29 happens: a status update has just changed the status of an issue, and
\* the issue holds the estimate of its creation (72 hours for Other, low)
EstimateKeptThroughUpdates ==
  \E i \in DOMAIN last.pre :
     /\ Succeeded("updateIssueStatus", i)
     /\ store[i].status # last.pre[i].status
     /\ store[i].estimatedResolutionTime = 72
     /\ store[i].category = "Other" /\ store[i].priority = "low"

\* C30: whenever createIssue, assignIssue, updateIssueStatus, voteOnIssue or
\* postMessage answers with a failure, the store holds exactly what it held
\* before the call: the step wrote no issue, no chat message and no field.
FailureLeavesStore ==
  (/\ last.req.op \in {"createIssue", "assignIssue", "updateIssueStatus", "voteOnIssue",
                        "postMessage"}
   /\ last.code >= 400)
     => /\ store = last.pre
        /\ ~last.wrote

====
